---- MODULE Spec2Model ----
(***************************************************************************)
(* WordsMaster: the game session of js/game.js (class WordsMaster) with    *)
(* the helpers of js/utils.js (class GameUtils).                           *)
(*                                                                         *)
(* Words and typed text are sequences of one-character strings.  Time is   *)
(* Date.now() in milliseconds.  null (timer, startTime) is Null.           *)
(***************************************************************************)
EXTENDS Integers, Sequences, FiniteSets, TLC

VARIABLES
    game,              \* this.game
    isGameActive,      \* this.isGameActive
    currentHintsUsed,  \* this.currentHintsUsed  (word index -> hints taken)
    highScore,         \* this.highScore, persisted as wordGameHighScore
    hintArea,          \* letters shown in #hintArea, in order
    now,               \* Date.now()
    intervals,         \* live setInterval handles
    nextHandle,        \* the handle the next setInterval returns
    pendingResets,     \* playAgain calls waiting in their 500 ms await
    endReport,         \* what the last endGame run computed and signalled
    endCalls,          \* endGame runs on the current game object
    lateCalls,         \* unguarded handler calls made while not active
    lastOp,            \* the handler that ran last and the branch it took
    words,             \* js/words.js: SAFE_WORDS and ALTERNATE_WORDS
    probe              \* a GameUtils function under study: its arguments and locals

vars == <<game, isGameActive, currentHintsUsed, highScore, hintArea, now,
          intervals, nextHandle, pendingResets, endReport, endCalls, lateCalls,
          lastOp, words, probe>>

----------------------------------------------------------------------------
(* Bounds of the model *)

\* skipWord, useHint and updateGame calls (they have no guard) made while no
\* round is active
MaxLateCalls == 1
\* the player asks for hints on the first MaxHintWord words of a round only
MaxHintWord == 1
\* playAgain calls that may be waiting at once
MaxPending == 2
\* startGame calls in one behaviour, where rounds are restarted
MaxRounds == 2
\* where rounds are restarted, the player plays the first MaxPlayWord words only
MaxPlayWord == 1
\* setter calls on one AudioManager
MaxAudioCalls == 3

----------------------------------------------------------------------------
(* Values *)

Null == -1

\* Date.now() at the loading of the page, in ms since 1970: far more than any
\* time limit
PageLoad == 1000000

\* selectedWords[i] for an index outside the array
Undefined == <<"undefined">>

LowerLetters ==
    <<"a","b","c","d","e","f","g","h","i","j","k","l","m",
      "n","o","p","q","r","s","t","u","v","w","x","y","z">>

UpperLetters ==
    <<"A","B","C","D","E","F","G","H","I","J","K","L","M",
      "N","O","P","Q","R","S","T","U","V","W","X","Y","Z">>

Whitespace == {" ", "\t"}

Range(s) == {s[i] : i \in 1..Len(s)}

IndexOf(c, s) == CHOOSE i \in 1..Len(s) : s[i] = c

\* String.prototype.toLowerCase on one character
LowerOf ==
    [c \in Range(UpperLetters) |-> LowerLetters[IndexOf(c, UpperLetters)]]

IsLowerLetter == [c \in Range(UpperLetters) \cup Range(LowerLetters)
                     \cup Whitespace \cup {"!", "1", "2"} |-> c \in Range(LowerLetters)]

ToLowerChar(c) == IF c \in DOMAIN LowerOf THEN LowerOf[c] ELSE c

toLowerCase(s) == [i \in 1..Len(s) |-> ToLowerChar(s[i])]

RECURSIVE TrimLeft(_)
TrimLeft(s) ==
    IF s # <<>> /\ Head(s) \in Whitespace THEN TrimLeft(Tail(s)) ELSE s

RECURSIVE TrimRight(_)
TrimRight(s) ==
    IF s # <<>> /\ s[Len(s)] \in Whitespace
    THEN TrimRight(SubSeq(s, 1, Len(s) - 1))
    ELSE s

\* String.prototype.trim
trim(s) == TrimRight(TrimLeft(s))

\* replace(/[^a-z]/g, "")
StripNonLetters(s) == SelectSeq(s, LAMBDA c : IsLowerLetter[c])

\* GameUtils.sanitizeInput
sanitizeInput(input) == StripNonLetters(toLowerCase(trim(input)))

\* UTF-16 code unit order of the characters the model uses: digits and
\* punctuation, then upper case, then lower case
CharOrder == <<" ", "\t", "!", "1", "2">> \o UpperLetters \o LowerLetters

CodeTable == [c \in Range(CharOrder) |-> IndexOf(c, CharOrder)]

CodeOf(c) == CodeTable[c]

RECURSIVE InsertSorted(_, _)
InsertSorted(c, s) ==
    IF s = <<>> THEN <<c>>
    ELSE IF CodeOf(c) <= CodeOf(Head(s)) THEN <<c>> \o s
    ELSE <<Head(s)>> \o InsertSorted(c, Tail(s))

RECURSIVE SortChars(_)
\* Array.prototype.sort() on an array of characters
SortChars(s) == IF s = <<>> THEN <<>> ELSE InsertSorted(Head(s), SortChars(Tail(s)))

\* GameUtils.lettersSignature
lettersSignature(str) == SortChars(toLowerCase(str))

\* GameUtils.sameLetters
sameLetters(a, b) == lettersSignature(a) = lettersSignature(b)

----------------------------------------------------------------------------
(* js/words.js and the random source *)

\* SAFE_WORDS: no two entries are anagrams of each other
\* (tests/game.logic.test.js); "mile" and "time" are entries, "lime" and
\* "item" are not (tests/acceptance.flex.test.js)
SAFE_WORDS ==
    << <<"m","i","l","e">>, <<"t","i","m","e">>, <<"t","r","e","e">>,
       <<"h","o","u","s","e">>, <<"o","c","e","a","n">>,
       <<"c","a","t">>, <<"p","l","a","n","e","t">> >>

\* ALTERNATE_WORDS: anagrams of base words that are accepted as answers
ALTERNATE_WORDS == << <<"l","i","m","e">> >>

WordsModule == [SAFE_WORDS |-> SAFE_WORDS, ALTERNATE_WORDS |-> ALTERNATE_WORDS]

\* a fuller SAFE_WORDS: more words than a round needs at every difficulty
SAFE_WORDS_FULL ==
    SAFE_WORDS \o
    << <<"w","a","t","e","r">>,
       <<"g","a","r","d","e","n">>,
       <<"b","r","i","d","g","e">>,
       <<"s","i","l","v","e","r">>,
       <<"w","i","n","d","o","w">>,
       <<"c","a","s","t","l","e">>,
       <<"f","o","r","e","s","t">>,
       <<"b","u","t","t","e","r">>,
       <<"c","a","n","d","l","e">>,
       <<"d","o","c","t","o","r">>,
       <<"k","i","t","c","h","e","n">>,
       <<"m","o","u","n","t","a","i","n">>,
       <<"e","l","e","p","h","a","n","t">>,
       <<"u","m","b","r","e","l","l","a">>,
       <<"c","o","m","p","u","t","e","r">>,
       <<"k","e","y","b","o","a","r","d">>,
       <<"s","a","n","d","w","i","c","h">>,
       <<"h","o","s","p","i","t","a","l">>,
       <<"b","i","r","t","h","d","a","y">>,
       <<"t","r","i","a","n","g","l","e">>,
       <<"n","o","t","e","b","o","o","k">>,
       <<"d","i","n","o","s","a","u","r">>,
       <<"a","i","r","p","l","a","n","e">>,
       <<"m","a","g","a","z","i","n","e">>,
       <<"p","a","i","n","t","i","n","g">>,
       <<"d","a","u","g","h","t","e","r">>,
       <<"f","o","o","t","b","a","l","l">>,
       <<"b","u","i","l","d","i","n","g">>,
       <<"c","a","l","e","n","d","a","r">>,
       <<"c","h","o","c","o","l","a","t","e">>,
       <<"b","u","t","t","e","r","f","l","y">>,
       <<"a","d","v","e","n","t","u","r","e">> >>

WordsModuleFull ==
    [SAFE_WORDS |-> SAFE_WORDS_FULL, ALTERNATE_WORDS |-> ALTERNATE_WORDS]

\* Math.random() in thousandths: r / RandomScale lies in [0, 1)
RandomScale == 1000

RandomVals == {0}

\* the n values one shuffle draws, here all alike
RandomDraws(n) == {[k \in 1..n |-> v] : v \in RandomVals}

----------------------------------------------------------------------------
(* GameUtils.shuffleArray *)

\* a swap that loses arr[i]
SwapCopies(arr, i, j) == [arr EXCEPT ![i] = arr[j]]

Swap(arr, i, j) == [arr EXCEPT ![i] = arr[j], ![j] = arr[i]]

RECURSIVE ShuffleLoop(_, _, _)
\* the loop body for the 0-based index i, drawing Head(rs)
ShuffleLoop(shuffled, i, rs) ==
    IF i <= 0 THEN shuffled
    ELSE LET j == (Head(rs) * (i + 1)) \div RandomScale
         IN  ShuffleLoop(Swap(shuffled, i + 1, j + 1), i - 1, Tail(rs))

shuffleArray(array, rs) == ShuffleLoop(array, Len(array) - 1, rs)

\* Array.prototype.slice(0, n)
Slice0(arr, n) == SubSeq(arr, 1, IF n < Len(arr) THEN n ELSE Len(arr))

\* Array.prototype.includes
Includes(arr, x) == \E i \in 1..Len(arr) : arr[i] = x

Max(a, b) == IF a >= b THEN a ELSE b

----------------------------------------------------------------------------
(* The game object *)

Difficulties == {"easy"}

difficultyConfig ==
    [easy   |-> [words |-> 5,  time |-> 120, minLen |-> 4, maxLen |-> 5],
     medium |-> [words |-> 10, time |-> 150, minLen |-> 6, maxLen |-> 7],
     hard   |-> [words |-> 20, time |-> 180, minLen |-> 8, maxLen |-> 12]]

\* the object the constructor and resetGameState build
DefaultGame ==
    [difficulty |-> "easy", totalWords |-> 5, timeLimit |-> 120,
     currentWord |-> 0, score |-> 0, lives |-> 3, hints |-> 3, streak |-> 0,
     longestStreak |-> 0, timer |-> Null, startTime |-> Null,
     selectedWords |-> <<>>, solved |-> <<>>, missed |-> <<>>,
     wordsPlayed |-> 0]

\* an empty object {} used as a map
EmptyMap == [k \in {} |-> 0]

\* map[k] || 0
MapGet(m, k) == IF k \in DOMAIN m THEN m[k] ELSE 0

\* map[k] = v
MapPut(m, k, v) == [x \in (DOMAIN m) \cup {k} |-> IF x = k THEN v ELSE m[x]]

\* selectedWords[i] for a 0-based index i
WordAt(g, i) ==
    IF i >= 0 /\ i < Len(g.selectedWords) THEN g.selectedWords[i + 1] ELSE Undefined

NoReport ==
    [timeBonus |-> 0, streakBonus |-> 0, perfectBonus |-> 0, totalBonus |-> 0,
     finalScore |-> 0, perfectPopup |-> FALSE, highscorePopup |-> FALSE]

\* the fields of this (and of the page) that the handlers read and write
Self ==
    [game |-> game, isGameActive |-> isGameActive,
     currentHintsUsed |-> currentHintsUsed, highScore |-> highScore,
     hintArea |-> hintArea, intervals |-> intervals, endReport |-> endReport,
     endCalls |-> endCalls, threw |-> FALSE]

Commit(s) ==
    /\ game' = s.game
    /\ isGameActive' = s.isGameActive
    /\ currentHintsUsed' = s.currentHintsUsed
    /\ highScore' = s.highScore
    /\ hintArea' = s.hintArea
    /\ intervals' = s.intervals
    /\ endReport' = s.endReport
    /\ endCalls' = s.endCalls

\* Date.now() - this.game.startTime, in whole seconds (null counts as 0)
ElapsedSeconds(g, t) ==
    (t - (IF g.startTime = Null THEN 0 ELSE g.startTime)) \div 1000

----------------------------------------------------------------------------
(* Handlers, as functions of the fields s they read and the clock t *)

\* an endGame that adds the bonuses whether or not a word was solved
endGameBonusAlways(s, t) ==
    LET g == s.game
        remaining == Max(0, g.timeLimit - ElapsedSeconds(g, t))
        streakBonus == g.longestStreak * 10
        perfectBonus == IF Len(g.solved) = g.totalWords THEN 100 ELSE 0
        score == g.score + remaining + streakBonus + perfectBonus
        newHigh == score > s.highScore
    IN  [s EXCEPT
            !.isGameActive = FALSE,
            !.intervals = @ \ {g.timer},
            !.game = [g EXCEPT !.score = score],
            !.highScore = IF newHigh THEN score ELSE @,
            !.endCalls = @ + 1,
            !.endReport =
                [timeBonus |-> remaining, streakBonus |-> streakBonus,
                 perfectBonus |-> perfectBonus,
                 totalBonus |-> remaining + streakBonus + perfectBonus,
                 finalScore |-> score,
                 perfectPopup |-> Len(g.solved) = g.totalWords /\ g.hints = 3,
                 highscorePopup |-> newHigh]]

\* an endGame whose streak bonus counts the current streak
endGameCurrentStreak(s, t) ==
    LET g == s.game
        remaining == Max(0, g.timeLimit - ElapsedSeconds(g, t))
        streakBonus == g.streak * 10
        timeBonus == IF Len(g.solved) > 0 THEN remaining ELSE 0
        perfectBonus ==
            IF Len(g.solved) > 0 /\ Len(g.solved) = g.totalWords THEN 100 ELSE 0
        score ==
            IF Len(g.solved) > 0
            THEN g.score + timeBonus + streakBonus + perfectBonus
            ELSE 0
        newHigh == score > s.highScore
    IN  [s EXCEPT
            !.isGameActive = FALSE,
            !.intervals = @ \ {g.timer},
            !.game = [g EXCEPT !.score = score],
            !.highScore = IF newHigh THEN score ELSE @,
            !.endCalls = @ + 1,
            !.endReport =
                [timeBonus |-> timeBonus, streakBonus |-> streakBonus,
                 perfectBonus |-> perfectBonus,
                 totalBonus |-> timeBonus + streakBonus + perfectBonus,
                 finalScore |-> score,
                 perfectPopup |-> Len(g.solved) = g.totalWords /\ g.hints = 3,
                 highscorePopup |-> newHigh]]

\* an endGame whose perfect-game popup does not look at the hints
endGamePerfectIgnoresHints(s, t) ==
    LET g == s.game
        remaining == Max(0, g.timeLimit - ElapsedSeconds(g, t))
        streakBonus == g.longestStreak * 10
        timeBonus == IF Len(g.solved) > 0 THEN remaining ELSE 0
        perfectBonus ==
            IF Len(g.solved) > 0 /\ Len(g.solved) = g.totalWords THEN 100 ELSE 0
        score ==
            IF Len(g.solved) > 0
            THEN g.score + timeBonus + streakBonus + perfectBonus
            ELSE 0
        newHigh == score > s.highScore
    IN  [s EXCEPT
            !.isGameActive = FALSE,
            !.intervals = @ \ {g.timer},
            !.game = [g EXCEPT !.score = score],
            !.highScore = IF newHigh THEN score ELSE @,
            !.endCalls = @ + 1,
            !.endReport =
                [timeBonus |-> timeBonus, streakBonus |-> streakBonus,
                 perfectBonus |-> perfectBonus,
                 totalBonus |-> timeBonus + streakBonus + perfectBonus,
                 finalScore |-> score,
                 perfectPopup |-> Len(g.solved) = g.totalWords,
                 highscorePopup |-> newHigh]]

\* an endGame that takes a score equal to the high score for a new one
endGameHighOnEqual(s, t) ==
    LET g == s.game
        remaining == Max(0, g.timeLimit - ElapsedSeconds(g, t))
        streakBonus == g.longestStreak * 10
        timeBonus == IF Len(g.solved) > 0 THEN remaining ELSE 0
        perfectBonus ==
            IF Len(g.solved) > 0 /\ Len(g.solved) = g.totalWords THEN 100 ELSE 0
        score ==
            IF Len(g.solved) > 0
            THEN g.score + timeBonus + streakBonus + perfectBonus
            ELSE 0
        perfect == Len(g.solved) = g.totalWords /\ g.hints = 3
        newHigh == score >= s.highScore
    IN  [s EXCEPT
            !.isGameActive = FALSE,
            !.intervals = @ \ {g.timer},
            !.game = [g EXCEPT !.score = score],
            !.highScore = IF newHigh THEN score ELSE @,
            !.endCalls = @ + 1,
            !.endReport =
                [timeBonus |-> timeBonus, streakBonus |-> streakBonus,
                 perfectBonus |-> perfectBonus,
                 totalBonus |-> timeBonus + streakBonus + perfectBonus,
                 finalScore |-> score,
                 perfectPopup |-> perfect, highscorePopup |-> newHigh]]

\* an endGame that does not clamp the seconds left at 0
endGameNoClamp(s, t) ==
    LET g == s.game
        remaining == g.timeLimit - ElapsedSeconds(g, t)
        streakBonus == g.longestStreak * 10
        timeBonus == IF Len(g.solved) > 0 THEN remaining ELSE 0
        perfectBonus ==
            IF Len(g.solved) > 0 /\ Len(g.solved) = g.totalWords THEN 100 ELSE 0
        score ==
            IF Len(g.solved) > 0
            THEN g.score + timeBonus + streakBonus + perfectBonus
            ELSE 0
        perfect == Len(g.solved) = g.totalWords /\ g.hints = 3
        newHigh == score > s.highScore
    IN  [s EXCEPT
            !.isGameActive = FALSE,
            !.intervals = @ \ {g.timer},
            !.game = [g EXCEPT !.score = score],
            !.highScore = IF newHigh THEN score ELSE @,
            !.endCalls = @ + 1,
            !.endReport =
                [timeBonus |-> timeBonus, streakBonus |-> streakBonus,
                 perfectBonus |-> perfectBonus,
                 totalBonus |-> timeBonus + streakBonus + perfectBonus,
                 finalScore |-> score,
                 perfectPopup |-> perfect, highscorePopup |-> newHigh]]

\* endGame
endGame(s, t) ==
    LET g == s.game
        remaining == Max(0, g.timeLimit - ElapsedSeconds(g, t))
        streakBonus == g.longestStreak * 10
        timeBonus == IF Len(g.solved) > 0 THEN remaining ELSE 0
        perfectBonus ==
            IF Len(g.solved) > 0 /\ Len(g.solved) = g.totalWords THEN 100 ELSE 0
        score ==
            IF Len(g.solved) > 0
            THEN g.score + timeBonus + streakBonus + perfectBonus
            ELSE 0
        perfect == Len(g.solved) = g.totalWords /\ g.hints = 3
        newHigh == score > s.highScore
    IN  [s EXCEPT
            !.isGameActive = FALSE,
            !.intervals = @ \ {g.timer},
            !.game = [g EXCEPT !.score = score],
            !.highScore = IF newHigh THEN score ELSE @,
            !.endCalls = @ + 1,
            !.endReport =
                [timeBonus |-> timeBonus, streakBonus |-> streakBonus,
                 perfectBonus |-> perfectBonus,
                 totalBonus |-> timeBonus + streakBonus + perfectBonus,
                 finalScore |-> score,
                 perfectPopup |-> perfect, highscorePopup |-> newHigh]]

\* a showNextWord that ends the round only past the last index
showNextWordStrict(s, t) ==
    IF s.game.currentWord > s.game.totalWords THEN endGame(s, t)
    ELSE IF WordAt(s.game, s.game.currentWord) = Undefined
         THEN [s EXCEPT !.threw = TRUE]
         ELSE [s EXCEPT !.hintArea = <<>>]

\* showNextWord; scrambleWord(undefined) throws before the page is touched
showNextWord(s, t) ==
    IF s.game.currentWord >= s.game.totalWords THEN endGame(s, t)
    ELSE IF WordAt(s.game, s.game.currentWord) = Undefined
         THEN [s EXCEPT !.threw = TRUE]
         ELSE [s EXCEPT !.hintArea = <<>>]

\* a handleCorrectAnswer that records the target word instead of the guess
handleCorrectAnswerRecordsTarget(s, correctWord) ==
    [s EXCEPT !.game =
        [@ EXCEPT !.score = @ + 100,
                  !.streak = @ + 1,
                  !.longestStreak = Max(s.game.streak + 1, @),
                  !.solved = Append(@, WordAt(s.game, s.game.currentWord))]]

\* a handleCorrectAnswer that pays the length of the word too
handleCorrectAnswerPaysLength(s, correctWord) ==
    [s EXCEPT !.game =
        [@ EXCEPT !.score = @ + 100 + 10 * Len(correctWord),
                  !.streak = @ + 1,
                  !.longestStreak = Max(s.game.streak + 1, @),
                  !.solved = Append(@, correctWord)]]

\* handleCorrectAnswer
handleCorrectAnswer(s, correctWord) ==
    [s EXCEPT !.game =
        [@ EXCEPT !.score = @ + 100,
                  !.streak = @ + 1,
                  !.longestStreak = Max(s.game.streak + 1, @),
                  !.solved = Append(@, correctWord)]]

\* a loop that starts after the current word
MissedFromNext(g, i) ==
    [g EXCEPT !.missed =
        @ \o SubSeq(g.selectedWords, i + 2, Len(g.selectedWords))]

RECURSIVE MissedFrom(_, _)
\* the loop of handleWrongAnswer from index i on
MissedFrom(g, i) ==
    IF i >= g.totalWords THEN g
    ELSE LET w == WordAt(g, i)
         IN  MissedFrom(
                 IF ~Includes(g.missed, w) /\ ~Includes(g.solved, w)
                 THEN [g EXCEPT !.missed = Append(@, w)]
                 ELSE g,
                 i + 1)

\* a handleWrongAnswer that keeps the streak
handleWrongAnswerKeepsStreak(s, t) ==
    LET s1 == [s EXCEPT !.game = [@ EXCEPT !.lives = @ - 1]]
    IN  IF s1.game.lives <= 0
        THEN endGame([s1 EXCEPT !.game = MissedFrom(@, s1.game.currentWord)], t)
        ELSE s1

\* handleWrongAnswer
handleWrongAnswer(s, t) ==
    LET s1 == [s EXCEPT !.game = [@ EXCEPT !.lives = @ - 1, !.streak = 0]]
    IN  IF s1.game.lives <= 0
        THEN endGame([s1 EXCEPT !.game = MissedFrom(@, s1.game.currentWord)], t)
        ELSE s1

\* a dictionary without the alternate words
DictionaryBaseOnly(w) == w.SAFE_WORDS

\* a dictionary of the alternate words alone
DictionaryAlternatesOnly(w) == w.ALTERNATE_WORDS

\* the dictionary submitAnswer builds
Dictionary(w) ==
    IF Len(w.ALTERNATE_WORDS) > 0 THEN w.SAFE_WORDS \o w.ALTERNATE_WORDS
    ELSE w.SAFE_WORDS

\* a first branch that does not consult the dictionary
IsCorrectGuessAnyAnagram(guess, correct, w) ==
    sameLetters(guess, correct) /\ Len(guess) > 0

\* the condition of submitAnswer's first branch
IsCorrectGuess(guess, correct, w) ==
    Includes(Dictionary(w), guess) /\ sameLetters(guess, correct) /\ Len(guess) > 0

\* a submitAnswer whose second branch has no guess !== "" test
SubmitBranchEmptyIsWrong(s, raw, w) ==
    IF ~s.isGameActive THEN "inactive"
    ELSE IF WordAt(s.game, s.game.currentWord) = Undefined THEN "throw"
    ELSE IF IsCorrectGuess(sanitizeInput(raw),
                toLowerCase(WordAt(s.game, s.game.currentWord)), w)
         THEN "correct"
    ELSE "wrong"

SubmitBranchUnguarded(s, raw, w) ==
    IF WordAt(s.game, s.game.currentWord) = Undefined THEN "throw"
    ELSE IF IsCorrectGuess(sanitizeInput(raw),
                toLowerCase(WordAt(s.game, s.game.currentWord)), w)
         THEN "correct"
    ELSE IF sanitizeInput(raw) # <<>> THEN "wrong"
    ELSE "none"

\* which branch submitAnswer takes
SubmitBranch(s, raw, w) ==
    IF ~s.isGameActive THEN "inactive"
    ELSE IF WordAt(s.game, s.game.currentWord) = Undefined THEN "throw"
    ELSE IF IsCorrectGuess(sanitizeInput(raw),
                toLowerCase(WordAt(s.game, s.game.currentWord)), w)
         THEN "correct"
    ELSE IF sanitizeInput(raw) # <<>> THEN "wrong"
    ELSE "none"

\* submitAnswer with raw in #userInput
submitAnswer(s, raw, w, t) ==
    LET branch == SubmitBranch(s, raw, w)
        guess == sanitizeInput(raw)
    IN  CASE branch = "correct" ->
               LET s1 == handleCorrectAnswer(s, guess)
                   s2 == [s1 EXCEPT !.game = [@ EXCEPT !.currentWord = @ + 1,
                                                       !.wordsPlayed = @ + 1]]
               IN  showNextWord(s2, t)
          [] branch = "wrong" -> handleWrongAnswer(s, t)
          [] branch = "throw" -> [s EXCEPT !.threw = TRUE]
          [] OTHER -> s

\* the hint text of useHint: the letters it names
HintLetters(word, hintCount) ==
    <<word[1]>>
    \o (IF hintCount >= 1 /\ Len(word) > 1 THEN <<word[2]>> ELSE <<>>)
    \o (IF hintCount >= 2 /\ Len(word) > 2 THEN <<word[3]>> ELSE <<>>)

\* a useHint without the hints > 0 test
useHintUnguarded(s) ==
    LET s1 == [s EXCEPT !.game = [@ EXCEPT !.hints = @ - 1]]
        word == WordAt(s.game, s.game.currentWord)
        hintCount == MapGet(s.currentHintsUsed, s.game.currentWord)
    IN  IF word = Undefined
        THEN [s1 EXCEPT !.threw = TRUE]
        ELSE [s1 EXCEPT
                !.currentHintsUsed = MapPut(@, s.game.currentWord, hintCount + 1),
                !.hintArea = HintLetters(word, hintCount)]

\* a useHint that counts the hints of the round, not those of the word
useHintGlobalCount(s) ==
    IF s.game.hints > 0
    THEN LET s1 == [s EXCEPT !.game = [@ EXCEPT !.hints = @ - 1]]
             word == WordAt(s.game, s.game.currentWord)
             hintCount == 3 - s.game.hints
         IN  IF word = Undefined
             THEN [s1 EXCEPT !.threw = TRUE]
             ELSE [s1 EXCEPT
                     !.currentHintsUsed = MapPut(@, s.game.currentWord, hintCount + 1),
                     !.hintArea = HintLetters(word, hintCount)]
    ELSE s

\* useHint; word[0] of an undefined word throws after hints was decremented
useHint(s) ==
    IF s.game.hints > 0
    THEN LET s1 == [s EXCEPT !.game = [@ EXCEPT !.hints = @ - 1]]
             word == WordAt(s.game, s.game.currentWord)
             hintCount == MapGet(s.currentHintsUsed, s.game.currentWord)
         IN  IF word = Undefined
             THEN [s1 EXCEPT !.threw = TRUE]
             ELSE [s1 EXCEPT
                     !.currentHintsUsed = MapPut(@, s.game.currentWord, hintCount + 1),
                     !.hintArea = HintLetters(word, hintCount)]
    ELSE s

\* a skipWord that breaks the streak
skipWordResetsStreak(s, t) ==
    LET s1 == [s EXCEPT !.game =
                  [@ EXCEPT !.missed = Append(@, WordAt(s.game, s.game.currentWord)),
                            !.currentWord = @ + 1,
                            !.wordsPlayed = @ + 1,
                            !.streak = 0]]
    IN  IF s1.game.currentWord >= s1.game.totalWords THEN endGame(s1, t)
        ELSE showNextWord(s1, t)

\* a skipWord that does not count the word as played
skipWordNotPlayed(s, t) ==
    LET s1 == [s EXCEPT !.game =
                  [@ EXCEPT !.missed = Append(@, WordAt(s.game, s.game.currentWord)),
                            !.currentWord = @ + 1]]
    IN  IF s1.game.currentWord >= s1.game.totalWords THEN endGame(s1, t)
        ELSE showNextWord(s1, t)

\* skipWord
skipWord(s, t) ==
    LET s1 == [s EXCEPT !.game =
                  [@ EXCEPT !.missed = Append(@, WordAt(s.game, s.game.currentWord)),
                            !.currentWord = @ + 1,
                            !.wordsPlayed = @ + 1]]
    IN  IF s1.game.currentWord >= s1.game.totalWords THEN endGame(s1, t)
        ELSE showNextWord(s1, t)

\* an updateGame that lets the round run through the second with nothing left
updateGameStrict(s, t) ==
    IF s.game.timeLimit - ElapsedSeconds(s.game, t) < 0 THEN endGame(s, t) ELSE s

\* an updateGame that only redraws the timer
updateGameNoEnd(s, t) == s

\* updateGame
updateGame(s, t) ==
    IF s.game.timeLimit - ElapsedSeconds(s.game, t) <= 0 THEN endGame(s, t) ELSE s

\* the words startGame draws
SelectWords(w, config, rs) ==
    Slice0(shuffleArray(
               SelectSeq(w.SAFE_WORDS,
                   LAMBDA x : Len(x) >= config.minLen /\ Len(x) <= config.maxLen),
               rs),
           config.words)

\* a startGame that keeps the hint map of the round before
startGameKeepsHintMap(s, difficulty, rs, w, t, h) ==
    LET config == difficultyConfig[difficulty]
        g == [difficulty |-> difficulty, totalWords |-> config.words,
              timeLimit |-> config.time, currentWord |-> 0, score |-> 0,
              lives |-> 3, hints |-> 3, streak |-> 0, longestStreak |-> 0,
              timer |-> h, startTime |-> t,
              selectedWords |-> SelectWords(w, config, rs),
              solved |-> <<>>, missed |-> <<>>, wordsPlayed |-> 0]
        s1 == [s EXCEPT
                 !.intervals = (@ \ {s.game.timer}) \cup {h},
                 !.game = g,
                 !.isGameActive = TRUE,
                 !.endCalls = 0]
    IN  showNextWord(s1, t)

\* startGame with difficulty selected, setInterval returning handle h
startGame(s, difficulty, rs, w, t, h) ==
    LET config == difficultyConfig[difficulty]
        g == [difficulty |-> difficulty, totalWords |-> config.words,
              timeLimit |-> config.time, currentWord |-> 0, score |-> 0,
              lives |-> 3, hints |-> 3, streak |-> 0, longestStreak |-> 0,
              timer |-> h, startTime |-> t,
              selectedWords |-> SelectWords(w, config, rs),
              solved |-> <<>>, missed |-> <<>>, wordsPlayed |-> 0]
        s1 == [s EXCEPT
                 !.intervals = (@ \ {s.game.timer}) \cup {h},
                 !.game = g,
                 !.currentHintsUsed = EmptyMap,
                 !.isGameActive = TRUE,
                 !.endCalls = 0]
    IN  showNextWord(s1, t)

\* resetGameState
resetGameState(s) ==
    [s EXCEPT !.game = DefaultGame, !.currentHintsUsed = EmptyMap, !.endCalls = 0]

----------------------------------------------------------------------------
(* Inputs *)

\* text a player may have typed into #userInput
RawInputs ==
    { <<"m","i","l","e">>, <<"t","i","m","e">>, <<"t","r","e","e","!">>,
      <<"h","o","u","s","e">>, <<"o","c","e","a","n">>,
      <<" ","L","i","M","e","1"," ">>, <<"i","t","e","m">>,
      <<>>, <<"1", "!">>, <<" ", "\t">> }

\* a high score an earlier visit may have stored
StoredHighScores == {700}

\* the instants at which the model reads the clock: within the first seconds
\* of an easy round started as the page is loaded, and around its time limit
ClockInstants ==
    LET limit == difficultyConfig["easy"].time * 1000
    IN  {PageLoad + d : d \in {0, 1999, limit, limit + 1000}}

----------------------------------------------------------------------------
(* The state machine *)

Op(name, branch) == [op |-> name, branch |-> branch]

\* no GameUtils function is under study
NoProbe == [fn |-> "none"]

Init ==
    /\ game = DefaultGame
    /\ isGameActive = FALSE
    /\ currentHintsUsed = EmptyMap
    /\ highScore \in StoredHighScores
    /\ hintArea = <<>>
    /\ now = PageLoad
    /\ intervals = {}
    /\ nextHandle = 1
    /\ pendingResets = 0
    /\ endReport = NoReport
    /\ endCalls = 0
    /\ lateCalls = 0
    /\ lastOp = Op("constructor", "none")
    /\ words = WordsModule
    /\ probe = NoProbe

\* whether a handler run that takes s to r ran endGame
RanEndGame(s, r) == r.endCalls = s.endCalls + 1

\* a call of a handler that has no isGameActive guard (skipWord, useHint,
\* updateGame): counted when no round is active
LateCall ==
    /\ isGameActive \/ lateCalls < MaxLateCalls
    /\ lateCalls' = IF isGameActive THEN lateCalls ELSE lateCalls + 1

\* the player starts a round
StartGame(difficulty, rs) ==
    /\ LET r == startGame(Self, difficulty, rs, words, now, nextHandle)
       IN  /\ Commit(r)
           /\ lastOp' = Op("startGame", IF r.threw THEN "throw" ELSE "started")
    /\ nextHandle' = nextHandle + 1
    /\ lateCalls' = 0
    /\ UNCHANGED <<now, pendingResets, words, probe>>

\* the player presses Enter or the submit button
SubmitAnswer(raw) ==
    /\ lastOp' = Op("submitAnswer", SubmitBranch(Self, raw, words))
    /\ Commit(submitAnswer(Self, raw, words, now))
    /\ UNCHANGED <<now, nextHandle, pendingResets, lateCalls, words, probe>>

\* the player asks for a hint
UseHintCall ==
    /\ LateCall
    /\ LET r == useHint(Self)
       IN  /\ Commit(r)
           /\ lastOp' = Op("useHint",
                           IF r.threw THEN "throw"
                           ELSE IF game.hints > 0 THEN "hint" ELSE "none")
    /\ UNCHANGED <<now, nextHandle, pendingResets, words, probe>>

\* the player asks for a hint on one of the first words of the round
UseHint == game.currentWord < MaxHintWord /\ UseHintCall

\* the player skips the word
SkipWord ==
    /\ LateCall
    /\ LET r == skipWord(Self, now)
       IN  /\ Commit(r)
           /\ lastOp' = Op("skipWord",
                           IF r.threw THEN "throw"
                           ELSE IF RanEndGame(Self, r) THEN "end" ELSE "next")
    /\ UNCHANGED <<now, nextHandle, pendingResets, words, probe>>

\* a live interval timer fires
UpdateGame ==
    /\ intervals # {}
    /\ LateCall
    /\ LET r == updateGame(Self, now)
       IN  /\ Commit(r)
           /\ lastOp' = Op("updateGame", IF RanEndGame(Self, r) THEN "end" ELSE "tick")
    /\ UNCHANGED <<now, nextHandle, pendingResets, words, probe>>

\* time passes in a round
Advance(t) ==
    /\ game.startTime # Null
    /\ t > now
    /\ now' = t
    /\ UNCHANGED <<game, isGameActive, currentHintsUsed, highScore, hintArea,
                   intervals, nextHandle, pendingResets, endReport, endCalls,
                   lateCalls, lastOp, words, probe>>

\* the player presses Play Again: playAgain up to its await
PlayAgain ==
    /\ pendingResets < MaxPending
    /\ pendingResets' = pendingResets + 1
    /\ game' = IF game.timer # Null THEN [game EXCEPT !.timer = Null] ELSE game
    /\ intervals' = intervals \ {game.timer}
    /\ lastOp' = Op("playAgain", "waiting")
    /\ UNCHANGED <<isGameActive, currentHintsUsed, highScore, hintArea, now,
                   nextHandle, endReport, endCalls, lateCalls, words, probe>>

\* the 500 ms of a playAgain call are over: the rest of playAgain
FinishPlayAgain ==
    /\ pendingResets > 0
    /\ pendingResets' = pendingResets - 1
    /\ Commit(resetGameState(Self))
    /\ lastOp' = Op("playAgain", "reset")
    /\ UNCHANGED <<now, nextHandle, lateCalls, words, probe>>

\* no round has been started since the page was loaded
NoRoundYet == game.startTime = Null /\ game.timer = Null

\* one round, from the loading of the page on
Next ==
    \/ /\ NoRoundYet
       /\ \E d \in Difficulties :
            \E rs \in RandomDraws(Len(words.SAFE_WORDS)) : StartGame(d, rs)
    \/ \E raw \in RawInputs : SubmitAnswer(raw)
    \/ UseHint
    \/ SkipWord
    \/ UpdateGame
    \/ \E t \in ClockInstants : Advance(t)

Spec == Init /\ [][Next]_vars

\* what the player types when hints are studied: the word asked for, or "item"
TypedAnswers ==
    {WordAt(game, game.currentWord), <<"i","t","e","m">>} \ {Undefined}

\* one round in which a hint may be asked for on any word; the clock stands
NextHint ==
    \/ /\ NoRoundYet
       /\ \E d \in Difficulties :
            \E rs \in RandomDraws(Len(words.SAFE_WORDS)) : StartGame(d, rs)
    \/ \E raw \in TypedAnswers : SubmitAnswer(raw)
    \/ UseHintCall
    \/ SkipWord

SpecHint == Init /\ [][NextHint]_vars

\* the options of the #difficulty select box
AllDifficulties == {"easy", "medium", "hard"}

\* the word lists the page may be loaded with
WordSources == {WordsModule, WordsModuleFull}

\* the n values one shuffle draws where rounds are restarted, all alike
StartDraws(n) == {[k \in 1..n |-> v] : v \in {0, RandomScale \div 2}}

\* the instants at which the clock is read where rounds are restarted: the
\* loading of the page and the end of the longest time limit
StartInstants == {PageLoad, PageLoad + difficultyConfig["hard"].time * 1000}

InitStart ==
    /\ game = DefaultGame
    /\ isGameActive = FALSE
    /\ currentHintsUsed = EmptyMap
    /\ highScore \in StoredHighScores
    /\ hintArea = <<>>
    /\ now = PageLoad
    /\ intervals = {}
    /\ nextHandle = 1
    /\ pendingResets = 0
    /\ endReport = NoReport
    /\ endCalls = 0
    /\ lateCalls = 0
    /\ lastOp = Op("constructor", "none")
    /\ words \in WordSources
    /\ probe = NoProbe

\* the player is at one of the first words
FirstWords == game.currentWord < MaxPlayWord

\* rounds of any difficulty, started from any state
NextStart ==
    \/ /\ nextHandle <= MaxRounds
       /\ \E d \in AllDifficulties :
            \E rs \in StartDraws(Len(words.SAFE_WORDS)) : StartGame(d, rs)
    \/ FirstWords /\ \E raw \in TypedAnswers : SubmitAnswer(raw)
    \/ FirstWords /\ UseHintCall
    \/ FirstWords /\ SkipWord
    \/ UpdateGame
    \/ \E t \in StartInstants : Advance(t)

SpecStart == InitStart /\ [][NextStart]_vars

----------------------------------------------------------------------------
(* Vocabulary of the properties *)

Active == isGameActive

\* the round on the current game object has ended
Ended == ~isGameActive /\ endCalls > 0

\* the word the player is asked for
Target == toLowerCase(WordAt(game, game.currentWord))

HasTarget == WordAt(game, game.currentWord) # Undefined

CountOf(c, str) == Cardinality({i \in 1..Len(str) : str[i] = c})

\* a and b are made of the same letters, each as often
LetterEquivalent(a, b) ==
    \A c \in Range(a) \cup Range(b) : CountOf(c, a) = CountOf(c, b)

InDictionary(guess) ==
    guess \in Range(words.SAFE_WORDS) \cup Range(words.ALTERNATE_WORDS)

\* the three conditions of acceptance
Acceptable(guess) ==
    guess # <<>> /\ LetterEquivalent(guess, Target) /\ InDictionary(guess)

\* the typed text holds no letter at all
NoLetters(raw) ==
    \A i \in 1..Len(raw) : raw[i] \notin Range(LowerLetters) \cup Range(UpperLetters)

\* max(0, timeLimit - elapsed whole seconds), read now
RemainingSeconds == Max(0, game.timeLimit - ((now - game.startTime) \div 1000))

\* the step is a run of submitAnswer on the text raw
SubmitStep(raw) == lastOp'.op = "submitAnswer" /\ SubmitAnswer(raw)

\* the step is a run of submitAnswer, whatever the text: submitAnswer alone
\* leaves its name in lastOp, and only the passing of time keeps lastOp
AnySubmitStep == lastOp'.op = "submitAnswer" /\ now' = now

\* the step is a run of skipWord
SkipStep == lastOp'.op = "skipWord" /\ SkipWord

\* the step is a run of updateGame
TickStep == lastOp'.op = "updateGame" /\ UpdateGame

\* the step is a run of useHint
HintStep == lastOp'.op = "useHint" /\ UseHintCall

RECURSIVE SumOf(_)
\* the sum of the values of a map
SumOf(m) ==
    IF DOMAIN m = {} THEN 0
    ELSE LET k == CHOOSE k \in DOMAIN m : TRUE
         IN  m[k] + SumOf([x \in DOMAIN m \ {k} |-> m[x]])

Min(a, b) == IF a <= b THEN a ELSE b

\* the step is a run of startGame with difficulty d selected
StartStep(d) ==
    /\ lastOp'.op = "startGame"
    /\ game'.difficulty = d
    /\ \E rs \in StartDraws(Len(words.SAFE_WORDS)) : StartGame(d, rs)

\* the words of the list w that a round of difficulty d may draw, in order
Eligible(w, d) ==
    SelectSeq(w.SAFE_WORDS,
        LAMBDA x : /\ Len(x) >= difficultyConfig[d].minLen
                   /\ Len(x) <= difficultyConfig[d].maxLen)

\* how often x occurs in seq
Occurrences(x, seq) == Cardinality({i \in 1..Len(seq) : seq[i] = x})

Mile == <<"m","i","l","e">>
Lime == <<"l","i","m","e">>
Time == <<"t","i","m","e">>
Item == <<"i","t","e","m">>

----------------------------------------------------------------------------
(* C1: in an active round submitAnswer treats the guess as correct (records *)
(* it as solved) if and only if the sanitized guess is non-empty, has the  *)
(* letters of the target word, and is in the dictionary; so "item" is      *)
(* rejected for "time" and "lime" is accepted for "mile".                  *)
C1_AcceptedIffAllThree ==
    [][\A raw \in RawInputs :
         (Active /\ HasTarget /\ SubmitStep(raw)) =>
            LET guess == sanitizeInput(raw)
            IN  /\ (game'.solved = Append(game.solved, guess)) <=> Acceptable(guess)
                /\ ~Acceptable(guess) => game'.solved = game.solved
                /\ (Target = Time /\ guess = Item) => game'.solved = game.solved
                /\ (Target = Mile /\ guess = Lime) =>
                       game'.solved = Append(game.solved, Lime)]_vars

\* "lime" was just accepted for the target "mile"
C1_Witness ==
    /\ lastOp = Op("submitAnswer", "correct")
    /\ game.solved # <<>>
    /\ game.solved[Len(game.solved)] = Lime
    /\ WordAt(game, game.currentWord - 1) = Mile

----------------------------------------------------------------------------
(* C2: in an active round a guess with no letter in it (empty, blank, only *)
(* digits or punctuation) changes none of lives, streak, score,            *)
(* currentWord, solved, missed and does not end the round.                 *)
C2_EmptyGuessNoOp ==
    [][\A raw \in RawInputs :
         (Active /\ NoLetters(raw) /\ SubmitStep(raw)) =>
            /\ game'.lives = game.lives
            /\ game'.streak = game.streak
            /\ game'.score = game.score
            /\ game'.currentWord = game.currentWord
            /\ game'.solved = game.solved
            /\ game'.missed = game.missed
            /\ isGameActive'
            /\ endCalls' = endCalls]_vars

\* an empty guess was just submitted in an active round
C2_Witness ==
    /\ lastOp = Op("submitAnswer", "none")
    /\ isGameActive
    /\ game.currentWord > 0
    /\ game.lives < 3

----------------------------------------------------------------------------
(* C3 as stated: every accepted guess adds exactly 100 to score, 1 to      *)
(* streak, keeps longestStreak at the maximum, appends the guess itself to *)
(* solved, adds 1 to currentWord, and keeps lives, hints and missed.       *)
C3_AcceptedAddsExactly100 ==
    [][\A raw \in RawInputs :
         (Active /\ HasTarget /\ Acceptable(sanitizeInput(raw)) /\ SubmitStep(raw)) =>
            /\ game'.score = game.score + 100
            /\ game'.streak = game.streak + 1
            /\ game'.longestStreak = Max(game.longestStreak, game.streak + 1)
            /\ game'.solved = Append(game.solved, sanitizeInput(raw))
            /\ game'.currentWord = game.currentWord + 1
            /\ game'.lives = game.lives
            /\ game'.hints = game.hints
            /\ game'.missed = game.missed]_vars

(* C3 amended: as above, but score grows by exactly 100 only when the      *)
(* guess does not solve the last word; an accepted guess on the last word  *)
(* ends the round in the same transition, and score then grows by 100 plus *)
(* the end-of-round bonuses.                                               *)
C3_AcceptedEffects ==
    [][\A raw \in RawInputs :
         (Active /\ HasTarget /\ Acceptable(sanitizeInput(raw)) /\ SubmitStep(raw)) =>
            LET longest == Max(game.longestStreak, game.streak + 1)
                last == game.currentWord + 1 = game.totalWords
                bonus == RemainingSeconds + 10 * longest
                         + (IF Len(game.solved) + 1 = game.totalWords THEN 100 ELSE 0)
            IN  /\ game'.score = game.score + 100 + (IF last THEN bonus ELSE 0)
                /\ isGameActive' = ~last
                /\ game'.streak = game.streak + 1
                /\ game'.longestStreak = longest
                /\ game'.solved = Append(game.solved, sanitizeInput(raw))
                /\ game'.currentWord = game.currentWord + 1
                /\ game'.lives = game.lives
                /\ game'.hints = game.hints
                /\ game'.missed = game.missed]_vars

\* an anagram alternate was just accepted as the last word of a round that
\* had a streak broken before
C3_Witness ==
    /\ lastOp = Op("submitAnswer", "correct")
    /\ game.currentWord = game.totalWords
    /\ game.solved[Len(game.solved)] = Lime
    /\ game.longestStreak > game.streak

----------------------------------------------------------------------------
(* C4: in an active round every rejected guess that has letters takes one  *)
(* life, sets streak to 0 and keeps longestStreak; if a life is left,      *)
(* currentWord, score, solved, missed and hints are unchanged and the      *)
(* round stays active.                                                     *)
C4_RejectedEffects ==
    [][\A raw \in RawInputs :
         (Active /\ HasTarget /\ sanitizeInput(raw) # <<>>
            /\ ~Acceptable(sanitizeInput(raw)) /\ SubmitStep(raw)) =>
            /\ game'.lives = game.lives - 1
            /\ game'.streak = 0
            /\ game'.longestStreak = game.longestStreak
            /\ game'.lives > 0 =>
                 /\ game'.currentWord = game.currentWord
                 /\ game'.score = game.score
                 /\ game'.solved = game.solved
                 /\ game'.missed = game.missed
                 /\ game'.hints = game.hints
                 /\ isGameActive']_vars

\* a guess was just rejected after a streak of two, and lives are left
C4_Witness ==
    /\ lastOp = Op("submitAnswer", "wrong")
    /\ isGameActive
    /\ game.longestStreak >= 2
    /\ game.streak = 0
    /\ game.lives = 2

----------------------------------------------------------------------------
(* C5: the rejected guess that takes the last life ends the round with     *)
(* len(solved) + len(missed) = totalWords: the words from currentWord on   *)
(* are appended to missed, each once, no word is in missed twice or in     *)
(* both lists; on the first word this leaves solved empty, missed equal to *)
(* the selected words, and score 0.                                        *)
NoDuplicates(seq) == \A i, j \in 1..Len(seq) : seq[i] = seq[j] => i = j

C5_LastLifeAccountsForAll ==
    [][\A raw \in RawInputs :
         (Active /\ HasTarget /\ game.lives = 1 /\ sanitizeInput(raw) # <<>>
            /\ ~Acceptable(sanitizeInput(raw)) /\ SubmitStep(raw)) =>
            /\ game'.lives = 0
            /\ ~isGameActive' /\ endCalls' = 1
            /\ Len(game'.solved) + Len(game'.missed) = game.totalWords
            /\ game'.solved = game.solved
            /\ game'.missed = game.missed
                 \o SubSeq(game.selectedWords, game.currentWord + 1, game.totalWords)
            /\ Len(game.solved) + Len(game.missed) = game.currentWord
            /\ NoDuplicates(game'.missed)
            /\ Range(game'.solved) \cap Range(game'.missed) = {}
            /\ (game.currentWord = 0) =>
                 /\ game'.solved = <<>>
                 /\ game'.missed = game.selectedWords
                 /\ game'.score = 0]_vars

\* the last life was just lost on the fourth word, after a hint, a skip and
\* accepted guesses
C5_Witness ==
    /\ lastOp = Op("submitAnswer", "wrong")
    /\ Ended /\ game.lives = 0
    /\ game.currentWord = 3
    /\ Len(game.solved) = 2 /\ Len(game.missed) = 3
    /\ game.hints < 3

----------------------------------------------------------------------------
(* C6: in every ended state, whatever ended the round, len(solved) +       *)
(* len(missed) = totalWords.                                               *)
C6_EndedAccountsForAll ==
    Ended => Len(game.solved) + Len(game.missed) = game.totalWords

----------------------------------------------------------------------------
(* C7: a round that ends with solved empty ends with score 0, whatever the *)
(* remaining time.                                                         *)
C7_NothingSolvedScoresZero ==
    [][(Active /\ ~isGameActive' /\ game'.solved = <<>>) =>
          game'.score = 0 /\ endReport'.finalScore = 0]_vars

\* a round just ended with nothing solved and time left on the clock
C7_Witness ==
    /\ Ended /\ endCalls = 1 /\ lateCalls = 0
    /\ game.solved = <<>>
    /\ RemainingSeconds > 0
    /\ game.score = 0

----------------------------------------------------------------------------
----------------------------------------------------------------------------
----------------------------------------------------------------------------
(* C10: the 100-point perfect-game bonus is added only when the round was  *)
(* completed without a hint; with a hint used, no perfect bonus is added.  *)
C10_NoPerfectBonusWithHints ==
    [][(Active /\ ~isGameActive' /\ game'.hints < 3) =>
          endReport'.perfectBonus = 0]_vars

----------------------------------------------------------------------------
(* C11: once a round is ended, a further run of endGame (through skipWord, *)
(* a tick or a direct call) leaves score, the persisted high score,        *)
(* solved, missed and longestStreak as the first end left them.            *)
C11_EndIsIdempotent ==
    [][(Ended /\ endCalls' = endCalls + 1) =>
          /\ game'.score = game.score
          /\ highScore' = highScore
          /\ game'.solved = game.solved
          /\ game'.missed = game.missed
          /\ game'.longestStreak = game.longestStreak]_vars

----------------------------------------------------------------------------
(* C12 as stated: skipWord in an active round appends the target word to   *)
(* missed, adds 1 to currentWord, and keeps lives, streak, longestStreak,  *)
(* score, hints and solved.                                                *)
C12_SkipKeepsScore ==
    [][(Active /\ HasTarget /\ SkipStep) =>
          /\ game'.missed = Append(game.missed, WordAt(game, game.currentWord))
          /\ game'.currentWord = game.currentWord + 1
          /\ game'.lives = game.lives
          /\ game'.streak = game.streak
          /\ game'.longestStreak = game.longestStreak
          /\ game'.score = game.score
          /\ game'.hints = game.hints
          /\ game'.solved = game.solved]_vars

(* C12 amended: as above, but score is kept only when a word remains; a    *)
(* skip of the last word ends the round in the same transition, and score  *)
(* then grows by the time and streak bonuses if a word was solved.         *)
C12_SkipEffects ==
    [][(Active /\ HasTarget /\ SkipStep) =>
          LET last == game.currentWord + 1 = game.totalWords
              bonus == IF game.solved # <<>>
                       THEN RemainingSeconds + 10 * game.longestStreak
                       ELSE 0
          IN  /\ game'.missed = Append(game.missed, WordAt(game, game.currentWord))
              /\ game'.currentWord = game.currentWord + 1
              /\ game'.lives = game.lives
              /\ game'.streak = game.streak
              /\ game'.longestStreak = game.longestStreak
              /\ game'.score = game.score + (IF last THEN bonus ELSE 0)
              /\ isGameActive' = ~last
              /\ game'.hints = game.hints
              /\ game'.solved = game.solved]_vars

\* the last word of an active round was just skipped during a streak
C12_Witness ==
    /\ lastOp = Op("skipWord", "end")
    /\ Ended /\ endCalls = 1 /\ lateCalls = 0
    /\ game.streak > 0
    /\ game.missed # <<>>
    /\ game.missed[Len(game.missed)] = WordAt(game, game.totalWords - 1)

----------------------------------------------------------------------------
----------------------------------------------------------------------------
(* C14: a tick in an active round ends the round when timeLimit minus the  *)
(* elapsed whole seconds is <= 0, and otherwise changes none of score,     *)
(* lives, hints, streak, longestStreak, currentWord, solved, missed and    *)
(* the active flag.                                                        *)
C14_TickEndsOrKeeps ==
    [][(Active /\ TickStep) =>
          IF game.timeLimit - ((now - game.startTime) \div 1000) <= 0
          THEN ~isGameActive' /\ endCalls' = endCalls + 1
          ELSE /\ game'.score = game.score
               /\ game'.lives = game.lives
               /\ game'.hints = game.hints
               /\ game'.streak = game.streak
               /\ game'.longestStreak = game.longestStreak
               /\ game'.currentWord = game.currentWord
               /\ game'.solved = game.solved
               /\ game'.missed = game.missed
               /\ isGameActive']_vars

\* a tick just ended the round in the second in which nothing was left
C14_Witness ==
    /\ lastOp = Op("updateGame", "end")
    /\ Ended /\ endCalls = 1
    /\ now - game.startTime = game.timeLimit * 1000
    /\ game.solved # <<>>

----------------------------------------------------------------------------
(* C18: useHint with hints = 0 changes nothing; otherwise it takes 1 from  *)
(* hints and adds 1 to the hint counter of the current word index, keeping *)
(* score, lives, streak, currentWord, solved and missed; so the per-word   *)
(* counters always sum to 3 - hints.                                       *)
C18_HintAccounting ==
    /\ [][HintStep =>
            IF game.hints = 0
            THEN UNCHANGED <<game, currentHintsUsed, isGameActive, highScore, hintArea>>
            ELSE /\ game'.hints = game.hints - 1
                 /\ MapGet(currentHintsUsed', game.currentWord)
                      = MapGet(currentHintsUsed, game.currentWord) + 1
                 /\ game'.score = game.score
                 /\ game'.lives = game.lives
                 /\ game'.streak = game.streak
                 /\ game'.currentWord = game.currentWord
                 /\ game'.solved = game.solved
                 /\ game'.missed = game.missed]_vars
    /\ [](SumOf(currentHintsUsed) = 3 - game.hints)

----------------------------------------------------------------------------
(* C19: with k - 1 hints shown for the word asked for, the next hint shows *)
(* exactly its first min(k, length) letters in order; the first hint on    *)
(* another word shows position 0 alone again.                              *)
C19_ProgressiveHint ==
    [][(HintStep /\ game.hints > 0 /\ HasTarget) =>
          LET k == Len(hintArea) + 1
              word == WordAt(game, game.currentWord)
          IN  /\ k <= 3
              /\ hintArea' = SubSeq(word, 1, Min(k, Len(word)))]_vars

\* after two hints on the first word, the first hint on the second word
C19_Witness ==
    /\ lastOp = Op("useHint", "hint")
    /\ game.currentWord = 1
    /\ hintArea = <<WordAt(game, 1)[1]>>
    /\ MapGet(currentHintsUsed, 0) = 2
    /\ MapGet(currentHintsUsed, 1) = 1

----------------------------------------------------------------------------
(* C15: startGame from any state (idle, active or ended) leaves the        *)
(* session active with score 0, lives 3, hints 3, streak 0, longestStreak  *)
(* 0, currentWord 0, solved and missed empty, the hint map empty, and      *)
(* totalWords and timeLimit those of the difficulty (easy 5/120, medium    *)
(* 10/150, hard 20/180); the persisted high score is kept.                 *)
C15_StartResets ==
    [][\A d \in AllDifficulties :
         StartStep(d) =>
            /\ isGameActive'
            /\ game'.difficulty = d
            /\ game'.score = 0 /\ game'.lives = 3 /\ game'.hints = 3
            /\ game'.streak = 0 /\ game'.longestStreak = 0
            /\ game'.currentWord = 0 /\ game'.wordsPlayed = 0
            /\ game'.solved = <<>> /\ game'.missed = <<>>
            /\ currentHintsUsed' = EmptyMap
            /\ game'.startTime = now
            /\ game'.totalWords =
                 (CASE d = "easy" -> 5 [] d = "medium" -> 10 [] d = "hard" -> 20)
            /\ game'.timeLimit =
                 (CASE d = "easy" -> 120 [] d = "medium" -> 150 [] d = "hard" -> 180)
            /\ highScore' = highScore]_vars

\* a hard round was just started after an earlier round that ended with a
\* solved word, a wrong guess and a hint
C15_Witness ==
    /\ lastOp.op = "startGame"
    /\ nextHandle = 3
    /\ endReport.finalScore > 0
    /\ game.difficulty = "hard"
    /\ isGameActive /\ game.lives = 3 /\ game.hints = 3 /\ game.score = 0

----------------------------------------------------------------------------
(* C16: when the word list holds fewer than totalWords words of the        *)
(* difficulty's lengths, startGame begins no round: the session does not   *)
(* become active and no interval timer is started.                         *)
C16_TooFewWordsNoRound ==
    [][\A d \in AllDifficulties :
         (StartStep(d) /\ Len(Eligible(words, d)) < difficultyConfig[d].words) =>
            /\ ~isGameActive'
            /\ intervals' \subseteq intervals]_vars

----------------------------------------------------------------------------
(* C17: when the word list holds enough words of the difficulty's lengths, *)
(* startGame draws exactly totalWords words, each a word of the list with  *)
(* a length in range, and none more often than the list holds it.          *)
C17_SelectedWords ==
    [][\A d \in AllDifficulties :
         (StartStep(d) /\ Len(Eligible(words, d)) >= difficultyConfig[d].words) =>
            LET sel == game'.selectedWords
            IN  /\ Len(sel) = game'.totalWords
                /\ \A i \in 1..Len(sel) :
                     /\ sel[i] \in Range(words.SAFE_WORDS)
                     /\ Len(sel[i]) >= difficultyConfig[d].minLen
                     /\ Len(sel[i]) <= difficultyConfig[d].maxLen
                     /\ Occurrences(sel[i], sel)
                          <= Occurrences(sel[i], Eligible(words, d))]_vars

\* a medium round was just started with ten words that are not the first
\* ten of the list in their order
C17_Witness ==
    /\ lastOp = Op("startGame", "started")
    /\ game.difficulty = "medium"
    /\ Len(game.selectedWords) = 10
    /\ game.selectedWords # SubSeq(Eligible(words, "medium"), 1, 10)

----------------------------------------------------------------------------
(* C20: lives and hints are in 0..3 in every state, and a step raises      *)
(* neither except startGame and the reset of playAgain, which set both     *)
(* to 3.                                                                   *)
C20_LivesAndHintsBounded ==
    /\ [](game.lives \in 0..3 /\ game.hints \in 0..3)
    /\ [][(game'.lives > game.lives \/ game'.hints > game.hints) =>
            /\ lastOp' \in {Op("startGame", "started"), Op("startGame", "throw"),
                            Op("playAgain", "reset")}
            /\ game'.lives = 3 /\ game'.hints = 3]_vars

\* the last life was just lost in a round in which all hints were spent
C20_Witness ==
    /\ lastOp = Op("submitAnswer", "wrong")
    /\ Ended
    /\ game.lives = 0 /\ game.hints = 0

----------------------------------------------------------------------------
(* C21: between one start and the next start or reset, currentWord never   *)
(* decreases and never exceeds totalWords, whatever is invoked, after the  *)
(* end of the round included.                                              *)
C21_IndexWithinRound ==
    /\ [](game.currentWord <= game.totalWords)
    /\ [][game'.currentWord < game.currentWord =>
            lastOp'.op \in {"startGame", "playAgain"}]_vars

----------------------------------------------------------------------------
(* C23: submitAnswer called while no round is active, before the first     *)
(* start or after the end, changes no field of the session and throws      *)
(* nothing, whatever the text in the input.                                *)
C23_InactiveSubmitIsNoOp ==
    [][(~Active /\ AnySubmitStep) =>
          /\ UNCHANGED <<game, isGameActive, currentHintsUsed, highScore,
                         hintArea, intervals, endReport, endCalls>>
          /\ lastOp'.branch = "inactive"]_vars

\* an answer was submitted after the round had ended with words left
C23_Witness ==
    /\ lastOp = Op("submitAnswer", "inactive")
    /\ Ended
    /\ HasTarget

----------------------------------------------------------------------------
(* C24: skipWord called while no round is active changes neither missed,   *)
(* currentWord, score nor the persisted high score, and does not run the   *)
(* end of round again.                                                     *)
C24_InactiveSkipIsNoOp ==
    [][(~Active /\ SkipStep) =>
          /\ game'.missed = game.missed
          /\ game'.currentWord = game.currentWord
          /\ game'.score = game.score
          /\ highScore' = highScore
          /\ endCalls' = endCalls]_vars

----------------------------------------------------------------------------
(* C25: useHint called while no round is active changes neither the hints  *)
(* left nor the hints counted per word, and throws nothing.                *)
C25_InactiveHintIsNoOp ==
    [][(~Active /\ HintStep) =>
          /\ game'.hints = game.hints
          /\ currentHintsUsed' = currentHintsUsed
          /\ lastOp'.branch # "throw"]_vars

----------------------------------------------------------------------------
(* Rounds on a first visit, when no high score is stored *)

\* the high score of a first visit: storage.get("wordGameHighScore", 0)
FirstVisitHighScore == 0

\* the page as the constructor leaves it on a first visit
FreshPage ==
    /\ game = DefaultGame
    /\ isGameActive = FALSE
    /\ currentHintsUsed = EmptyMap
    /\ highScore = FirstVisitHighScore
    /\ hintArea = <<>>
    /\ now = PageLoad
    /\ intervals = {}
    /\ nextHandle = 1
    /\ pendingResets = 0
    /\ endReport = NoReport
    /\ endCalls = 0
    /\ lateCalls = 0
    /\ lastOp = Op("constructor", "none")

InitFirstVisit ==
    /\ FreshPage
    /\ words \in WordSources
    /\ probe = NoProbe

SpecFirstVisit == InitFirstVisit /\ [][NextStart]_vars

----------------------------------------------------------------------------
(* C22: a run of endGame signals a new high score iff the final score is   *)
(* greater than the persisted high score, which then becomes the final     *)
(* score and otherwise stays; so over the rounds the persisted high score  *)
(* never decreases and is at least the final score of every ended round.   *)
C22_HighScore ==
    /\ [][endCalls' = endCalls + 1 =>
            /\ endReport'.finalScore = game'.score
            /\ endReport'.highscorePopup <=> (game'.score > highScore)
            /\ highScore' = IF game'.score > highScore
                            THEN game'.score ELSE highScore]_vars
    /\ [][highScore' >= highScore]_vars
    /\ [](Ended => highScore >= game.score)

\* a second round has ended below the high score that the first round set,
\* and no new high score was signalled
C22_Witness ==
    /\ Ended
    /\ nextHandle = 3
    /\ ~endReport.highscorePopup
    /\ highScore > FirstVisitHighScore
    /\ highScore > game.score

----------------------------------------------------------------------------
(* Rounds and Play Again.  playAgain waits 500 ms before it resets the     *)
(* game object; the handlers stay callable in between.                     *)

\* rounds, Play Again presses and their resets in any order; the player
\* answers the first words only
NextReset ==
    \/ /\ nextHandle <= MaxRounds
       /\ \E d \in Difficulties :
            \E rs \in RandomDraws(Len(words.SAFE_WORDS)) : StartGame(d, rs)
    \/ PlayAgain
    \/ FinishPlayAgain
    \/ FirstWords /\ \E raw \in TypedAnswers : SubmitAnswer(raw)
    \/ UpdateGame
    \/ \E t \in ClockInstants : Advance(t)

SpecReset == Init /\ [][NextReset]_vars

----------------------------------------------------------------------------
(* C26: updateGame called while no round is active changes no field of the *)
(* session and does not run endGame.                                       *)
C26_InactiveTickIsNoOp ==
    [][(~Active /\ TickStep) =>
          /\ UNCHANGED <<game, isGameActive, currentHintsUsed, highScore,
                         hintArea, intervals, endReport>>
          /\ endCalls' = endCalls]_vars

----------------------------------------------------------------------------
(* C29: submitAnswer never throws: whatever the input holds, it handles    *)
(* the guess or does nothing.                                              *)
C29_SubmitNeverThrows == lastOp # Op("submitAnswer", "throw")

----------------------------------------------------------------------------
(* Acceptance as a function of guess, target word and word lists *)

\* the variables of the page, the probe apart
session == <<game, isGameActive, currentHintsUsed, highScore, hintArea, now,
             intervals, nextHandle, pendingResets, endReport, endCalls,
             lateCalls, lastOp, words>>

\* word lists that differ in their alternate words
AcceptSources ==
    { WordsModule,
      [SAFE_WORDS |-> SAFE_WORDS, ALTERNATE_WORDS |-> <<>>],
      [SAFE_WORDS |-> SAFE_WORDS, ALTERNATE_WORDS |-> <<Lime, Item>>] }

\* words of the lists, anagrams of them, and words of neither kind
AcceptWords ==
    { Mile, Lime, Time, Item, <<"e","m","i","t">>,
      <<"c","a","t">>, <<"a","c","t">>, <<"t","r","e","e">> }

\* whether submitAnswer takes its first branch on guess a typed for target b
Accepts(a, b, w) == IsCorrectGuess(sanitizeInput(a), toLowerCase(b), w)

InitAccept ==
    /\ FreshPage
    /\ words \in AcceptSources
    /\ probe \in {[fn |-> "accept", a |-> a, b |-> b, done |-> FALSE,
                   ab |-> FALSE, ba |-> FALSE] : a, b \in AcceptWords}

\* a typed for b, and b typed for a
ApplyAccept ==
    /\ probe.fn = "accept"
    /\ ~probe.done
    /\ probe' = [probe EXCEPT !.done = TRUE,
                              !.ab = Accepts(probe.a, probe.b, words),
                              !.ba = Accepts(probe.b, probe.a, words)]
    /\ UNCHANGED session

NextAccept == ApplyAccept

SpecAccept == InitAccept /\ [][NextAccept]_vars

----------------------------------------------------------------------------
(* C27: for all words a and b with the same letters that are both in the   *)
(* dictionary, a is accepted for target b and b is accepted for target a.  *)
C27_AcceptanceSymmetric ==
    (/\ probe.fn = "accept"
     /\ probe.done
     /\ LetterEquivalent(probe.a, probe.b)
     /\ InDictionary(probe.a)
     /\ InDictionary(probe.b))
    => (probe.ab /\ probe.ba)

\* "lime", an alternate word, and "mile" were tried for each other
C27_Witness ==
    /\ probe.fn = "accept"
    /\ probe.done
    /\ probe.a = Lime /\ probe.b = Mile
    /\ words = WordsModule
    /\ probe.ab /\ probe.ba

----------------------------------------------------------------------------
(* GameUtils.scrambleWord, statement by statement *)

\* the bound of the loop of scrambleWord
ScrambleAttempts == 10

\* the one-to-one maps of 1..n onto itself
Orderings(n) ==
    {f \in [1..n -> 1..n] : \A i, j \in 1..n : f[i] = f[j] => i = j}

\* a sort that may repeat one letter in the place of another
ArrangementsWithRepeats(word) ==
    {[i \in 1..Len(word) |-> word[f[i]]] : f \in [1..Len(word) -> 1..Len(word)]}

\* what word.split("").sort(() => Math.random() - 0.5).join("") may give: a
\* sort under a comparator that answers at random leaves the letters in an
\* order that depends on the draws and on the engine
Arrangements(word) ==
    {[i \in 1..Len(word) |-> word[f[i]]] : f \in Orderings(Len(word))}

\* the words scrambleWord is applied to
ScrambleWords ==
    { <<>>, <<"a">>, <<"a","a">>, <<"a","b">>, <<"a","a","b">>, <<"c","a","t">> }

InitScramble ==
    /\ FreshPage
    /\ words = WordsModule
    /\ probe \in {[fn |-> "scramble", pc |-> "start", word |-> w,
                   scrambled |-> <<>>, attempts |-> 0] : w \in ScrambleWords}

\* the early return, or the first sort
ScrambleFirst ==
    /\ probe.fn = "scramble"
    /\ probe.pc = "start"
    /\ IF Len(probe.word) <= 1
       THEN probe' = [probe EXCEPT !.pc = "done", !.scrambled = probe.word]
       ELSE \E s \in Arrangements(probe.word) :
               probe' = [probe EXCEPT !.pc = "loop", !.scrambled = s]
    /\ UNCHANGED session

\* one round of the while loop
ScrambleAgain ==
    /\ probe.fn = "scramble"
    /\ probe.pc = "loop"
    /\ probe.scrambled = probe.word /\ probe.attempts < ScrambleAttempts
    /\ \E s \in Arrangements(probe.word) :
          probe' = [probe EXCEPT !.scrambled = s, !.attempts = @ + 1]
    /\ UNCHANGED session

\* the loop is left and scrambled is returned
ScrambleReturn ==
    /\ probe.fn = "scramble"
    /\ probe.pc = "loop"
    /\ ~(probe.scrambled = probe.word /\ probe.attempts < ScrambleAttempts)
    /\ probe' = [probe EXCEPT !.pc = "done"]
    /\ UNCHANGED session

NextScramble == ScrambleFirst \/ ScrambleAgain \/ ScrambleReturn

SpecScramble == InitScramble /\ [][NextScramble]_vars

----------------------------------------------------------------------------
(* C28: for a word with two different letters or more, scrambleWord        *)
(* returns a string other than the word, whatever the random source gives. *)
C28_ScrambleDiffers ==
    (/\ probe.fn = "scramble"
     /\ probe.pc = "done"
     /\ Cardinality(Range(probe.word)) >= 2)
    => probe.scrambled # probe.word

----------------------------------------------------------------------------
(* One round under a clock that advances and a timer that keeps firing *)

\* one round, the player typing the target word or a word that is not it
NextLive ==
    \/ /\ NoRoundYet
       /\ \E d \in Difficulties :
            \E rs \in RandomDraws(Len(words.SAFE_WORDS)) : StartGame(d, rs)
    \/ \E raw \in TypedAnswers : SubmitAnswer(raw)
    \/ UseHint
    \/ SkipWord
    \/ UpdateGame
    \/ \E t \in ClockInstants : Advance(t)

\* setInterval calls updateGame every second for as long as the timer is
\* live, and Date.now() keeps growing
SpecLive ==
    /\ Init
    /\ [][NextLive]_vars
    /\ WF_vars(UpdateGame)
    /\ WF_vars(\E t \in ClockInstants : Advance(t))

----------------------------------------------------------------------------
(* C30: every active round comes to its end, whatever the player does, and *)
(* a tick that finds the whole seconds elapsed at or above the time limit  *)
(* ends it.                                                                *)
C30_RoundEnds ==
    /\ Active ~> Ended
    /\ [][(Active /\ TickStep
             /\ (now - game.startTime) \div 1000 >= game.timeLimit)
          => Ended']_vars

\* a tick ended a round in which the player had done nothing
C30_Witness ==
    /\ lastOp = Op("updateGame", "end")
    /\ Ended
    /\ game.solved = <<>> /\ game.missed = <<>>
    /\ game.lives = 3 /\ game.hints = 3

----------------------------------------------------------------------------
(* C31: at most one interval timer is live in every state, and its handle  *)
(* is the one stored in game.timer, however startGame, endGame, playAgain, *)
(* its delayed reset and the timer callbacks interleave.                   *)
C31_OneTimerOfCurrentGame ==
    /\ Cardinality(intervals) <= 1
    /\ \A h \in intervals : h = game.timer

----------------------------------------------------------------------------
(* C35: in every active state score = 100 * len(solved): before the end of *)
(* the round the score only grows by 100 per accepted guess, is never      *)
(* negative and holds no bonus.                                            *)
C35_ScoreIsHundredPerSolved ==
    Active => (game.score = 100 * Len(game.solved) /\ game.score >= 0)

\* an active round with two words solved, a hint taken and a life lost
C35_Witness ==
    /\ Active
    /\ Len(game.solved) = 2 /\ game.score = 200
    /\ game.hints < 3 /\ game.lives < 3

----------------------------------------------------------------------------
(* C36: in every active state currentWord = wordsPlayed = len(solved) +    *)
(* len(missed): every index below currentWord was recorded once, as solved *)
(* or as missed, and no index from currentWord on was recorded.            *)
C36_IndexCountsRecorded ==
    Active =>
       /\ game.currentWord = game.wordsPlayed
       /\ game.currentWord = Len(game.solved) + Len(game.missed)
       /\ \A i \in 1..Len(game.missed) :
             game.missed[i] \in {WordAt(game, k) : k \in 0..(game.currentWord - 1)}
       /\ Len(game.solved) + Len(game.missed) <= game.currentWord

\* an active round with a word solved, a word skipped and a wrong guess made
C36_Witness ==
    /\ Active
    /\ Len(game.solved) >= 1 /\ Len(game.missed) >= 1
    /\ game.lives < 3

----------------------------------------------------------------------------
(* C37: once the whole seconds elapsed reach the time limit, a submitted   *)
(* guess adds nothing to score or solved, even before the next tick has    *)
(* ended the round.                                                        *)
C37_NoAcceptanceAfterTimeout ==
    [][(/\ Active
        /\ AnySubmitStep
        /\ (now - game.startTime) \div 1000 >= game.timeLimit)
       => (game'.solved = game.solved /\ game'.score = game.score)]_vars

----------------------------------------------------------------------------
(* C38: the delayed reset of playAgain never runs while a round is active, *)
(* so an active round always has its drawn words, a start time and its     *)
(* timer handle.                                                           *)
C38_ResetSparesActiveRound ==
    /\ [][lastOp' = Op("playAgain", "reset") /\ pendingResets' < pendingResets
           => ~Active]_vars
    /\ [](Active => /\ game.selectedWords # <<>>
                    /\ game.startTime # Null
                    /\ game.timer # Null)

----------------------------------------------------------------------------
(* C39: a round ended by a tick that finds no time left gets a time bonus  *)
(* of 0, so with k > 0 words solved its final score is                     *)
(* 100 * k + 10 * longestStreak.                                           *)
C39_TimedOutRoundHasNoTimeBonus ==
    [][(Active /\ TickStep /\ endCalls' = endCalls + 1) =>
          /\ endReport'.timeBonus = 0
          /\ Len(game.solved) > 0 =>
                game'.score = 100 * Len(game.solved) + 10 * game.longestStreak]_vars

\* a tick has ended a round with two words or more solved a second past the
\* time limit
C39_Witness ==
    /\ lastOp = Op("updateGame", "end")
    /\ Ended /\ endCalls = 1
    /\ Len(game.solved) >= 2
    /\ (now - game.startTime) \div 1000 > game.timeLimit

----------------------------------------------------------------------------
(* AudioManager: the preferences and their copy in localStorage.  Volumes  *)
(* are in hundredths: 30 stands for 0.3.                                   *)

\* Math.min(1, Math.max(0, volume))
Clamp(v) == Min(100, Max(0, v))

\* localStorage without the key wm_audio_prefs
NoPrefs == [present |-> FALSE]

\* savePrefs: the object written under wm_audio_prefs
savePrefs(am) ==
    [present |-> TRUE, musicEnabled |-> am.musicEnabled,
     sfxEnabled |-> am.sfxEnabled, volume |-> am.volume,
     musicVolume |-> am.musicVolume, sfxVolume |-> am.sfxVolume]

\* the constructor: the defaults, then what localStorage holds; without
\* stored volumes the music volume is volume * 0.5 + 0.15
AudioManager(store) ==
    IF store.present
    THEN [musicEnabled |-> store.musicEnabled, sfxEnabled |-> store.sfxEnabled,
          volume |-> Clamp(store.volume),
          musicVolume |-> Clamp(store.musicVolume),
          sfxVolume |-> Clamp(store.sfxVolume)]
    ELSE [musicEnabled |-> TRUE, sfxEnabled |-> TRUE, volume |-> 50,
          musicVolume |-> 50 \div 2 + 15, sfxVolume |-> 50]

setMusicEnabled(a, enabled) ==
    LET am == [a.am EXCEPT !.musicEnabled = enabled]
    IN  [am |-> am, store |-> savePrefs(am)]

setSFXEnabled(a, enabled) ==
    LET am == [a.am EXCEPT !.sfxEnabled = enabled]
    IN  [am |-> am, store |-> savePrefs(am)]

setMusicVolume(a, volume) ==
    LET am == [a.am EXCEPT !.musicVolume = Clamp(volume)]
    IN  [am |-> am, store |-> savePrefs(am)]

\* a setSFXVolume that does not persist the preferences
setSFXVolumeUnsaved(a, volume) ==
    LET am == [a.am EXCEPT !.sfxVolume = Clamp(volume)]
    IN  [am |-> am, store |-> a.store]

setSFXVolume(a, volume) ==
    LET am == [a.am EXCEPT !.sfxVolume = Clamp(volume)]
    IN  [am |-> am, store |-> savePrefs(am)]

\* the volumes the setters are called with, some outside 0..1
VolumeInputs == {0 - 20, 0, 30, 70, 100, 150}

\* nothing was set on this AudioManager yet
NothingSet == [k \in {} |-> 0]

InitAudio ==
    /\ FreshPage
    /\ words = WordsModule
    /\ probe = [fn |-> "audio", am |-> AudioManager(NoPrefs), store |-> NoPrefs,
                last |-> NothingSet, calls |-> 0]

\* the outcome r of a setter that was given value for field
AudioCall(r, field, value) ==
    /\ probe.fn = "audio"
    /\ probe.calls < MaxAudioCalls
    /\ probe' = [probe EXCEPT !.am = r.am, !.store = r.store,
                              !.last = MapPut(@, field, value),
                              !.calls = @ + 1]
    /\ UNCHANGED session

SetMusicEnabled ==
    \E b \in BOOLEAN : AudioCall(setMusicEnabled(probe, b), "musicEnabled", b)

SetSFXEnabled ==
    \E b \in BOOLEAN : AudioCall(setSFXEnabled(probe, b), "sfxEnabled", b)

SetMusicVolume ==
    \E v \in VolumeInputs : AudioCall(setMusicVolume(probe, v), "musicVolume", v)

SetSFXVolume ==
    \E v \in VolumeInputs : AudioCall(setSFXVolume(probe, v), "sfxVolume", v)

\* the page is loaded again: a new AudioManager is constructed
NewAudioManager ==
    /\ probe.fn = "audio"
    /\ probe.calls > 0
    /\ probe' = [probe EXCEPT !.am = AudioManager(probe.store),
                              !.last = NothingSet, !.calls = 0]
    /\ UNCHANGED session

NextAudio ==
    \/ SetMusicEnabled
    \/ SetSFXEnabled
    \/ SetMusicVolume
    \/ SetSFXVolume
    \/ NewAudioManager

SpecAudio == InitAudio /\ [][NextAudio]_vars

----------------------------------------------------------------------------
(* C33: after any sequence of setMusicEnabled, setSFXEnabled,              *)
(* setMusicVolume and setSFXVolume calls on one AudioManager, a newly      *)
(* constructed AudioManager has the flags and volumes last set, the        *)
(* volumes clamped into 0..1.                                              *)
C33_AudioPrefsRoundTrip ==
    probe.fn = "audio" =>
       LET new == AudioManager(probe.store)
           last == probe.last
       IN  /\ new.musicEnabled = probe.am.musicEnabled
           /\ new.sfxEnabled = probe.am.sfxEnabled
           /\ new.musicVolume = probe.am.musicVolume
           /\ new.sfxVolume = probe.am.sfxVolume
           /\ new.musicVolume \in 0..100 /\ new.sfxVolume \in 0..100
           /\ "musicEnabled" \in DOMAIN last =>
                 new.musicEnabled = last["musicEnabled"]
           /\ "sfxEnabled" \in DOMAIN last => new.sfxEnabled = last["sfxEnabled"]
           /\ "musicVolume" \in DOMAIN last =>
                 new.musicVolume = Min(100, Max(0, last["musicVolume"]))
           /\ "sfxVolume" \in DOMAIN last =>
                 new.sfxVolume = Min(100, Max(0, last["sfxVolume"]))

\* music was switched off and both volumes were set, one of them above 1
C33_Witness ==
    /\ probe.fn = "audio"
    /\ probe.calls = 3
    /\ DOMAIN probe.last = {"musicEnabled", "musicVolume", "sfxVolume"}
    /\ probe.last["musicEnabled"] = FALSE
    /\ probe.last["musicVolume"] = 30
    /\ probe.last["sfxVolume"] = 150
    /\ AudioManager(probe.store).sfxVolume = 100

----------------------------------------------------------------------------
(* GameUtils.calculateScore *)

baseScoringConfig ==
    [easy   |-> [baseScore |-> 50,  lengthMultiplier |-> 10],
     medium |-> [baseScore |-> 75,  lengthMultiplier |-> 15],
     hard   |-> [baseScore |-> 100, lengthMultiplier |-> 20]]

\* a calculateScore without the minimum of 10
calculateScoreNoFloor(wordLength, timeTaken, difficulty, hintsUsed) ==
    LET config == IF difficulty \in DOMAIN baseScoringConfig
                  THEN baseScoringConfig[difficulty]
                  ELSE baseScoringConfig.easy
        timeBonus == Max(0, 30 - timeTaken)
    IN  config.baseScore + wordLength * config.lengthMultiplier
          + timeBonus - hintsUsed * 10

calculateScore(wordLength, timeTaken, difficulty, hintsUsed) ==
    LET config == IF difficulty \in DOMAIN baseScoringConfig
                  THEN baseScoringConfig[difficulty]
                  ELSE baseScoringConfig.easy
        timeBonus == Max(0, 30 - timeTaken)
        score == config.baseScore + wordLength * config.lengthMultiplier
                   + timeBonus - hintsUsed * 10
    IN  Max(10, score)

\* the arguments calculateScore is applied to
ScoreLengths == {1, 5, 12}
ScoreTimes == {0, 5, 15, 30, 45}
ScoreDifficulties == {"easy", "medium", "hard", "expert"}
ScoreHints == 0..8

InitScore ==
    /\ FreshPage
    /\ words = WordsModule
    /\ probe \in {[fn |-> "score", wordLength |-> l, timeTaken |-> t,
                   difficulty |-> d, hintsUsed |-> h, done |-> FALSE,
                   score |-> 0, next |-> 0] :
                     l \in ScoreLengths, t \in ScoreTimes,
                     d \in ScoreDifficulties, h \in ScoreHints}

\* the score with hintsUsed hints, and with one hint more
ApplyScore ==
    /\ probe.fn = "score"
    /\ ~probe.done
    /\ probe' = [probe EXCEPT
                   !.done = TRUE,
                   !.score = calculateScore(probe.wordLength, probe.timeTaken,
                                            probe.difficulty, probe.hintsUsed),
                   !.next = calculateScore(probe.wordLength, probe.timeTaken,
                                           probe.difficulty, probe.hintsUsed + 1)]
    /\ UNCHANGED session

NextScore == ApplyScore

SpecScore == InitScore /\ [][NextScore]_vars

----------------------------------------------------------------------------
(* C32: calculateScore never returns less than 10; with wordLength,        *)
(* timeTaken and difficulty fixed, one hint more never raises the result   *)
(* and lowers it by exactly 10 as long as the result stays above 10.       *)
C32_ScoreFloorAndHintPenalty ==
    (probe.fn = "score" /\ probe.done) =>
       /\ probe.score >= 10 /\ probe.next >= 10
       /\ probe.next <= probe.score
       /\ probe.next > 10 => probe.next = probe.score - 10

\* one hint more takes a score of 15 down to the floor of 10
C32_Witness ==
    /\ probe.fn = "score" /\ probe.done
    /\ probe.score = 15 /\ probe.next = 10

----------------------------------------------------------------------------
(* scrambleWord once called runs on: each statement is followed by the next *)

SpecScrambleRuns == InitScramble /\ [][NextScramble]_vars /\ WF_vars(NextScramble)

----------------------------------------------------------------------------
(* C34: scrambleWord terminates after at most 10 further sorts and returns *)
(* a rearrangement of the word: as long, with every letter as often; a     *)
(* word of length 0 or 1 is returned as it is.                             *)
C34_ScrambleRearranges ==
    /\ <>(probe.fn = "scramble" /\ probe.pc = "done")
    /\ [](probe.fn = "scramble" => probe.attempts <= ScrambleAttempts)
    /\ []((probe.fn = "scramble" /\ probe.pc = "done") =>
            /\ Len(probe.scrambled) = Len(probe.word)
            /\ LetterEquivalent(probe.scrambled, probe.word)
            /\ Len(probe.word) <= 1 => probe.scrambled = probe.word)

\* "cat" came back as "tca" from the second sort of the loop
C34_Witness ==
    /\ probe.fn = "scramble" /\ probe.pc = "done"
    /\ probe.word = <<"c","a","t">>
    /\ probe.attempts = 2
    /\ probe.scrambled = <<"t","c","a">>

----------------------------------------------------------------------------
(* Rounds in which the player types the word asked for, over a word list   *)
(* that has the words every difficulty draws                               *)

InitSolve ==
    /\ FreshPage
    /\ words = WordsModuleFull
    /\ probe = NoProbe

\* the player types the target word as it stands in the list
SubmitTarget ==
    /\ Active
    /\ HasTarget
    /\ SubmitAnswer(WordAt(game, game.currentWord))

NextSolve ==
    \/ /\ NoRoundYet
       /\ \E d \in AllDifficulties :
            \E rs \in StartDraws(Len(words.SAFE_WORDS)) : StartGame(d, rs)
    \/ SubmitTarget
    \/ UseHint

\* the player goes on typing: weak fairness of SubmitTarget, WF_vars(SubmitTarget),
\* written out with the states in which SubmitTarget is enabled, those of an
\* active round with a target
KeepsTyping ==
    \/ []<>(~(Active /\ HasTarget))
    \/ []<><<SubmitTarget>>_vars

SpecSolve == InitSolve /\ [][NextSolve]_vars /\ KeepsTyping

----------------------------------------------------------------------------
(* C40: in an active state the target word itself, typed as a guess, is    *)
(* accepted, the words being drawn from the list the dictionary is built   *)
(* from; so from a freshly started round a state with all totalWords words *)
(* solved is reached.                                                      *)
C40_TargetIsAccepted ==
    /\ [][(Active /\ HasTarget /\ SubmitTarget) =>
            /\ lastOp'.branch = "correct"
            /\ game'.solved = Append(game.solved, Target)]_vars
    /\ Active ~> (Ended /\ Len(game.solved) = game.totalWords)

\* a hard round has ended with its twenty words solved
C40_Witness ==
    /\ Ended
    /\ game.difficulty = "hard"
    /\ Len(game.solved) = 20
    /\ game.missed = <<>>

====
